---- MODULE Spec2Model ----
(***************************************************************************)
(* Model of csp.utils.build_policy and its helpers (django-csp).           *)
(*                                                                         *)
(* A caller owns three objects, config, update and replace, and calls      *)
(* build_policy on them repeatedly with some nonce and order.  The model   *)
(* keeps Python's object identity where the code depends on it: a list is  *)
(* a reference into `heap`, a dict is an insertion-ordered sequence of     *)
(* [k, v] entries, and a policy of the composed collection is either a     *)
(* dict owned by the call or the caller's own config[template] dict.       *)
(*                                                                         *)
(* Encoding of Python values:                                              *)
(*   None            [t |-> "none"]                                        *)
(*   str / bool      [t |-> "scalar", s |-> item]                          *)
(*   tuple           [t |-> "tuple", items |-> <<item, ...>>]              *)
(*   caller's list   [t |-> "list", id |-> ref]      (contents heap[ref])  *)
(*   list made by    [t |-> "newlist", items |-> <<item, ...>>]            *)
(*   copy.copy                                                             *)
(* An item is a string; the booleans True and False are the items PyTrue   *)
(* and PyFalse.  Tokens hold no whitespace.                                *)
(***************************************************************************)
EXTENDS Integers, Sequences, FiniteSets, TLC

VARIABLES
    config,     \* the caller's config object: [form, d]
    update,     \* the caller's update object: [form, d]
    replace,    \* the caller's replace object: [form, d]
    heap,       \* contents of the caller's list objects, by reference
    hashOrder,  \* iteration order of a set of directive names in this process
    calls,      \* number of build_policy calls made so far
    args,       \* nonce and order of the last call
    pre,        \* config, update, replace and heap as the last call found them
    composed,   \* the collection the last call composed, as _append_policies left it
    compiled,   \* the _compile_policy calls of the last call: argument and outcome
                \* (lists in composed and compiled are read through heap)
    result      \* what the last call returned, or the error it raised

vars ==
    <<config, update, replace, heap, hashOrder, calls, args, pre, composed,
      compiled, result>>

\* Number of build_policy calls explored on one set of caller objects.
MaxCalls == 2

-----------------------------------------------------------------------------
(* Python values *)

PyTrue == "<True>"
PyFalse == "<False>"

None == [t |-> "none"]
Str(s) == [t |-> "scalar", s |-> s]
Bool(b) == [t |-> "scalar", s |-> IF b THEN PyTrue ELSE PyFalse]
Tup(items) == [t |-> "tuple", items |-> items]
List(ref) == [t |-> "list", id |-> ref]
NewList(items) == [t |-> "newlist", items |-> items]

\* The one element of a singleton set.  { F(x) : x \in {e} } evaluates e once
\* and hands its value to F.
Only(S) == CHOOSE x \in S : TRUE

IsSeqValue(v) == v.t \in {"tuple", "list", "newlist"}

\* The items of a list or tuple value.
ItemsOf(v, h) == IF v.t = "list" THEN h[v.id] ELSE v.items

\* The characters of a str, as Python yields them when a str is iterated or
\* indexed (the strings of the model's inputs).
StrChars(s) ==
    CASE s = "" -> <<>>
      [] s = "ab" -> <<"a", "b">>
      [] s = "'self'" -> <<"'", "s", "e", "l", "f", "'">>
      [] OTHER -> <<s>>

-----------------------------------------------------------------------------
(* dict: an insertion-ordered sequence of [k, v] entries with distinct keys *)

Entry(k, v) == [k |-> k, v |-> v]

KeySet(d) == {d[i].k : i \in 1..Len(d)}

Has(d, k) == k \in KeySet(d)

Get(d, k) == d[CHOOSE i \in 1..Len(d) : d[i].k = k].v

\* d[k] = v: an existing key keeps its position, a new key goes last.
Set(d, k, v) ==
    IF Has(d, k)
    THEN [i \in 1..Len(d) |-> IF d[i].k = k THEN Entry(k, v) ELSE d[i]]
    ELSE Append(d, Entry(k, v))

\* d.pop(k, default): the dict without k.
Pop(d, k) == SelectSeq(d, LAMBDA e : e.k # k)

\* d.get(k, default)
GetOr(d, k, default) == IF Has(d, k) THEN Get(d, k) ELSE default

-----------------------------------------------------------------------------
(* csp.conf *)

\* defaults.UPDATE_TEMPLATE
UPDATE_TEMPLATE == "default"

\* The directive names of defaults.POLICY_DEFINITIONS['default'] the model uses.
DIRECTIVES ==
    {"default-src", "img-src", "report-uri", "upgrade-insecure-requests",
     "report_only", "include_nonce_in"}

\* {d for d in DIRECTIVES if '_' in d}
PSEUDO_DIRECTIVES == {"report_only", "include_nonce_in"}

\* defaults.POLICY_DEFINITIONS['default'] entries _compile_policy falls back to.
DefaultReportUri == None
DefaultReportOnly == Bool(FALSE)
DefaultIncludeNonceIn == Tup(<<"default-src">>)

-----------------------------------------------------------------------------
(* csp.utils *)

\* A raised exception is carried as its type name; NoError is normal completion.
NoError == ""

\* The caller's object as build_policy's loops see it: {} for None, a single
\* flat policy under 'default', a mapping of policies as it is.  The wrapper
\* dict is new; the policy dicts in it are the caller's own.
_normalize_config(c) ==
    IF c.form = "none" THEN <<>>
    ELSE IF c.form = "flat"
    THEN IF c.policy = <<>> THEN <<>> ELSE <<Entry("default", c.policy)>>
    ELSE c.d

\* The caller's config object after its policy dicts became those of `n`.
StoreConfig(c, n) ==
    IF c.form = "named" THEN [c EXCEPT !.d = n]
    ELSE IF c.form = "flat" /\ c.policy # <<>>
    THEN [c EXCEPT !.policy = Get(n, "default")]
    ELSE c

\* list(set(ks)): the names of ks in this process's set iteration order.
SetOrder(ks) == SelectSeq(hashOrder, LAMBDA k : k \in ks)

\* The value _replace_policy stores for key k: pseudo directives keep the
\* object itself, other values are copied and a scalar becomes a 1-tuple.
ReplacedValue(k, v, h) ==
    IF k \in PSEUDO_DIRECTIVES THEN v
    ELSE IF v.t = "list" THEN NewList(h[v.id])
    ELSE IF IsSeqValue(v) THEN v
    ELSE Tup(<<v.s>>)

_replace_policy(csp, repl, h) ==
    LET pick(k) == IF Has(repl, k) THEN Get(repl, k) ELSE Get(csp, k)
    IN  Only({ [i \in 1..Len(kept) |->
                  Entry(kept[i], ReplacedValue(kept[i], pick(kept[i]), h))] :
               kept \in {SelectSeq(SetOrder(KeySet(csp) \cup KeySet(repl)),
                                   LAMBDA k : pick(k) # None)} })

\* UpdateStep with an update that overwrites a content directive instead of
\* appending to it.
UpdateStepOverwrite(st, k, v) ==
    IF st.err # NoError \/ v = None THEN st
    ELSE IF k \in PSEUDO_DIRECTIVES THEN [st EXCEPT !.csp = Set(@, k, v)]
    ELSE [st EXCEPT !.csp = Set(@, k, IF IsSeqValue(v) THEN v ELSE Tup(<<v.s>>))]

\* One iteration of _update_policy's loop on st = [csp, heap, err].
UpdateStep(st, k, v) ==
    IF st.err # NoError \/ v = None THEN st
    ELSE IF k \in PSEUDO_DIRECTIVES THEN [st EXCEPT !.csp = Set(@, k, v)]
    ELSE
        LET w == IF IsSeqValue(v) THEN v ELSE Tup(<<v.s>>)
            cur == GetOr(st.csp, k, None)
            more == ItemsOf(w, st.heap)
        IN  CASE cur = None -> [st EXCEPT !.csp = Set(@, k, w)]
              [] cur.t = "list" -> [st EXCEPT !.heap[cur.id] = @ \o more]
              [] cur.t = "newlist" ->
                    [st EXCEPT !.csp = Set(@, k, NewList(cur.items \o more))]
              [] cur.t = "tuple" ->
                    [st EXCEPT !.csp = Set(@, k, Tup(cur.items \o more))]
              [] OTHER -> [st EXCEPT !.err = "TypeError"]

RECURSIVE UpdateFrom(_, _, _)
UpdateFrom(st, upd, i) ==
    IF i > Len(upd) THEN st
    ELSE Only({ UpdateFrom(next, upd, i + 1) :
                next \in {UpdateStep(st, upd[i].k, upd[i].v)} })

\* Mutates the dict csp (and the lists it holds) in place: [csp, heap, err].
_update_policy(csp, upd, h) ==
    UpdateFrom([csp |-> csp, heap |-> h, err |-> NoError], upd, 1)

\* A policy of the composed collection: a dict the call made, or the caller's
\* dict config[name] itself.
Owned(csp) == [own |-> "call", csp |-> csp]
ConfigDict(name) == [own |-> "config", name |-> name]

\* One iteration of _append_policies' loop on st = [policies, config, heap, err].
AppendStep(st, key, append_csp) ==
    IF st.err # NoError \/ Has(st.policies, key) THEN st
    ELSE IF Has(st.config, key) /\ append_csp = <<>> THEN
        \* csp = config[key].copy()
        Only({ [st EXCEPT !.policies = Set(@, key, Owned(u.csp)),
                          !.heap = u.heap, !.err = u.err] :
               u \in {_update_policy(Get(st.config, key), append_csp, st.heap)} })
    \* settings defines no CSP_UPDATE_TEMPLATE: append_template is
    \* defaults.UPDATE_TEMPLATE, which is not None
    ELSE IF Has(st.config, UPDATE_TEMPLATE) THEN
        \* csp = config[append_template]: the caller's dict, not a copy
        Only({ [policies |-> IF u.err = NoError
                             THEN Set(st.policies, key, ConfigDict(UPDATE_TEMPLATE))
                             ELSE st.policies,
                config |-> Set(st.config, UPDATE_TEMPLATE, u.csp),
                heap |-> u.heap,
                err |-> u.err] :
               u \in {_update_policy(Get(st.config, UPDATE_TEMPLATE), append_csp,
                                     st.heap)} })
    ELSE
        \* defaults.POLICIES is a list: indexing it by a name raises
        [st EXCEPT !.err = "TypeError"]

RECURSIVE AppendFrom(_, _, _)
AppendFrom(st, append, i) ==
    IF i > Len(append) THEN st
    ELSE Only({ AppendFrom(next, append, i + 1) :
                next \in {AppendStep(st, append[i].k, append[i].v)} })

_append_policies(policies, append, cfg, h) ==
    AppendFrom([policies |-> policies, config |-> cfg, heap |-> h, err |-> NoError],
               append, 1)

\* ' '.join(items): raises when an item is not a str.
RECURSIVE JoinFrom(_, _, _)
JoinFrom(items, sep, i) ==
    IF i > Len(items) THEN ""
    ELSE IF i = Len(items) THEN items[i]
    ELSE items[i] \o sep \o JoinFrom(items, sep, i + 1)

Join(items, sep) == JoinFrom(items, sep, 1)

HasBool(items) == \E i \in 1..Len(items) : items[i] \in {PyTrue, PyFalse}

\* force_str(item)
ForceStr(item) ==
    IF item = PyTrue THEN "True" ELSE IF item = PyFalse THEN "False" ELSE item

\* ('%s %s' % (a, b)).strip(), for a and b without surrounding whitespace.
FormatStrip(a, b) ==
    IF a = "" THEN b ELSE IF b = "" THEN a ELSE a \o " " \o b

\* bool(v)
Truthy(v, h) ==
    CASE v.t = "none" -> FALSE
      [] v.t = "scalar" -> v.s \notin {PyFalse, ""}
      [] OTHER -> ItemsOf(v, h) # <<>>

\* What iterating v yields, and whether v can be iterated at all.
Iterable(v) == IsSeqValue(v) \/ (v.t = "scalar" /\ v.s \notin {PyTrue, PyFalse})
IterOf(v, h) == IF v.t = "scalar" THEN StrChars(v.s) ELSE ItemsOf(v, h)

\* One iteration of _compile_policy's main loop on st = [parts, err].
PartStep(st, key, value, h) ==
    IF st.err # NoError THEN st
    ELSE IF ~Iterable(value) THEN [st EXCEPT !.err = "TypeError"]  \* len(value)
    ELSE Only({
            IF Len(items) > 0 /\ items[1] = PyTrue /\ IsSeqValue(value)
            THEN [st EXCEPT !.parts = Set(@, key, "")]
            ELSE IF Len(items) > 0 /\ items[1] = PyFalse /\ IsSeqValue(value)
            THEN st
            ELSE IF HasBool(items) THEN [st EXCEPT !.err = "TypeError"]
            ELSE [st EXCEPT !.parts = Set(@, key, Join(items, " "))] :
            items \in {IterOf(value, h)} })

RECURSIVE PartsFrom(_, _, _, _)
PartsFrom(st, csp, h, i) ==
    IF i > Len(csp) THEN st
    ELSE Only({ PartsFrom(next, csp, h, i + 1) :
                next \in {PartStep(st, csp[i].k, csp[i].v, h)} })

\* NonceFrom with a loop that skips a section it has already visited.
RECURSIVE NonceFromOnce(_, _, _, _)
NonceFromOnce(parts, sections, nonce, i) ==
    IF i > Len(sections) THEN parts
    ELSE IF \E j \in 1..(i - 1) : sections[j] = sections[i]
    THEN NonceFromOnce(parts, sections, nonce, i + 1)
    ELSE Only({ NonceFromOnce(next, sections, nonce, i + 1) :
                next \in {Set(parts, sections[i],
                              FormatStrip(GetOr(parts, sections[i], ""),
                                          "'nonce-" \o nonce \o "'"))} })

\* The nonce loop of _compile_policy over the sections of include_nonce_in.
RECURSIVE NonceFrom(_, _, _, _)
NonceFrom(parts, sections, nonce, i) ==
    IF i > Len(sections) THEN parts
    ELSE Only({ NonceFrom(next, sections, nonce, i + 1) :
                next \in {Set(parts, sections[i],
                              FormatStrip(GetOr(parts, sections[i], ""),
                                          "'nonce-" \o nonce \o "'"))} })

\* The report-uri part (utils.py: if report_uri) added to the parts of the
\* main loop; raises when a true report_uri cannot be iterated.
WithReportUri(main, report_uri, h) ==
    IF main.err # NoError \/ ~Truthy(report_uri, h) THEN main
    ELSE IF ~Iterable(report_uri) THEN [main EXCEPT !.err = "TypeError"]
    ELSE Only({ [main EXCEPT !.parts =
                    Set(@, "report-uri",
                        Join([i \in 1..Len(toks) |-> ForceStr(toks[i])], " "))] :
                toks \in {IterOf(report_uri, h)} })

\* The nonce part (utils.py: if nonce) on st = [parts, err].
WithNonceParts(st, include_nonce_in, nonce, h) ==
    IF st.err # NoError \/ ~Truthy(nonce, h) THEN st
    ELSE IF ~Iterable(include_nonce_in) THEN [st EXCEPT !.err = "TypeError"]
    ELSE [st EXCEPT !.parts = NonceFrom(@, IterOf(include_nonce_in, h), nonce.s, 1)]

\* [csp, parts, header, report_only, err]: csp is the dict as the pops leave
\* it, parts the policy_parts dict, header the policy string.
_compile_policy(csp, nonce, h) ==
    Only({ [csp |-> Pop(Pop(Pop(csp, "report-uri"), "report_only"), "include_nonce_in"),
            parts |-> st.parts,
            header |-> Join([i \in 1..Len(st.parts) |->
                               FormatStrip(st.parts[i].k, st.parts[i].v)], "; "),
            report_only |-> GetOr(csp, "report_only", DefaultReportOnly),
            err |-> st.err] :
           st \in { WithNonceParts(
                        uri, GetOr(csp, "include_nonce_in", DefaultIncludeNonceIn),
                        nonce, h) :
                    uri \in { WithReportUri(
                                 main, GetOr(csp, "report-uri", DefaultReportUri), h) :
                              main \in { PartsFrom(
                                           [parts |-> <<>>, err |-> NoError],
                                           Pop(Pop(Pop(csp, "report-uri"), "report_only"),
                                               "include_nonce_in"),
                                           h, 1) } } } })

\* A value, and a dict, with the caller's lists written out.
DeepValue(v, h) == IF v.t = "list" THEN [t |-> "list", items |-> h[v.id]] ELSE v
DeepDict(d, h) == [i \in 1..Len(d) |-> Entry(d[i].k, DeepValue(d[i].v, h))]

\* The dict a policy of the composed collection denotes.
DictOf(p, cfg) == IF p.own = "config" THEN Get(cfg, p.name) ELSE p.csp

\* One iteration of build_policy's loop over config.items() on
\* st = [policies, heap, err].
BaseStep(st, name, policy, upd, repl) ==
    IF st.err # NoError THEN st
    ELSE Only({ [policies |-> IF u.err = NoError
                              THEN Set(st.policies, name, Owned(u.csp))
                              ELSE st.policies,
                 heap |-> u.heap,
                 err |-> u.err] :
                u \in { IF Has(upd, name)
                        THEN _update_policy(new_policy, Get(upd, name), st.heap)
                        ELSE [csp |-> new_policy, heap |-> st.heap, err |-> NoError] :
                        new_policy \in
                            {_replace_policy(policy, GetOr(repl, name, <<>>), st.heap)} } })

RECURSIVE BaseFrom(_, _, _, _, _)
BaseFrom(st, cfg, upd, repl, i) ==
    IF i > Len(cfg) THEN st
    ELSE Only({ BaseFrom(next, cfg, upd, repl, i + 1) :
                next \in {BaseStep(st, cfg[i].k, cfg[i].v, upd, repl)} })

\* The policies build_policy iterates to compile.  With an order the name
\* `policies` is rebound to a generator whose body reads `policies` only when
\* it is consumed, so it subscripts the generator itself and raises.
OrderedPolicies(policies, order, h) ==
    IF Truthy(order, h)
    THEN [seq |-> <<>>, err |-> "TypeError"]
    ELSE [seq |-> policies, err |-> NoError]

\* [_compile_policy(csp, nonce=nonce) for csp in policies] on
\* st = [config, compiled, err]; a policy that is the caller's dict is popped
\* from in place.
CompileStep(st, name, p, nonce, h) ==
    IF st.err # NoError THEN st
    ELSE Only({ [config |-> IF p.own = "config"
                            THEN Set(st.config, p.name, c.csp)
                            ELSE st.config,
                 compiled |->
                    Append(st.compiled,
                           [name |-> name, own |-> p.own, csp |-> DictOf(p, st.config),
                            nonce |-> nonce, parts |-> c.parts, header |-> c.header,
                            report_only |-> c.report_only, err |-> c.err]),
                 err |-> c.err] :
                c \in {_compile_policy(DictOf(p, st.config), nonce, h)} })

RECURSIVE CompileFrom(_, _, _, _, _)
CompileFrom(st, seq, nonce, h, i) ==
    IF i > Len(seq) THEN st
    ELSE Only({ CompileFrom(next, seq, nonce, h, i + 1) :
                next \in {CompileStep(st, seq[i].k, seq[i].v, nonce, h)} })

\* The composition of build_policy, down to _append_policies:
\* [policies, config, heap, err].
Compose(cfg, upd, repl, h) ==
    Only({ IF base.err # NoError
           THEN [policies |-> base.policies, config |-> cfg,
                 heap |-> base.heap, err |-> base.err]
           ELSE _append_policies(base.policies, upd, cfg, base.heap) :
           base \in {BaseFrom([policies |-> <<>>, heap |-> h, err |-> NoError],
                              cfg, upd, repl, 1)} })

\* The emission of build_policy, from `if order` on: [config, compiled, err].
Emit(app, nonce, order) ==
    IF app.err # NoError
    THEN [config |-> app.config, compiled |-> <<>>, err |-> app.err]
    ELSE Only({ CompileFrom([config |-> app.config, compiled |-> <<>>, err |-> ord.err],
                            ord.seq, nonce, app.heap, 1) :
                ord \in {OrderedPolicies(app.policies, order, app.heap)} })

\* What a call leaves and returns, from its composition app and emission out.
Outcome(c, app, out) ==
    [config |-> StoreConfig(c, out.config),
     heap |-> app.heap,
     composed |-> [err |-> app.err,
                   policies |->
                      IF app.err # NoError THEN <<>>
                      ELSE [i \in 1..Len(app.policies) |->
                              Entry(app.policies[i].k,
                                    DictOf(app.policies[i].v, app.config))]],
     compiled |-> out.compiled,
     result |-> [err |-> out.err,
                 out |-> IF out.err # NoError THEN <<>>
                         ELSE [i \in 1..Len(out.compiled) |->
                                 [header |-> out.compiled[i].header,
                                  report_only |-> out.compiled[i].report_only]]]]

\* build_policy(config, update, replace, nonce, order) on the caller's objects
\* c, u, r with the heap h: the objects' state afterwards, what was composed
\* and compiled, and the list returned or the error raised.
build_policy(c, u, r, nonce, order, h) ==
    Only({ Only({ Outcome(c, app, out) : out \in {Emit(app, nonce, order)} }) :
           app \in {Compose(_normalize_config(c), _normalize_config(u),
                            _normalize_config(r), h)} })

-----------------------------------------------------------------------------
(* The caller *)

\* A caller's object: its form, its dict, and the lists it brings.
\* (a dict of policies, a single policy, or None)
Named(d, h) == [form |-> "named", d |-> d, heap |-> h]
Flat(policy, h) == [form |-> "flat", policy |-> policy, heap |-> h]
NoLists == [ref \in {} |-> <<>>]
NoObject == [form |-> "none", heap |-> NoLists]

ConfigInputs ==
    { Named(<<Entry("default", <<Entry("default-src", List("c1"))>>)>>,
            "c1" :> <<"'self'">>),
      Named(<<Entry("default", <<Entry("default-src", Tup(<<"'self'">>)),
                                 Entry("report_only", Bool(TRUE)),
                                 Entry("report-uri", Tup(<<"/r">>))>>)>>,
            NoLists),
      Named(<<Entry("default", <<Entry("default-src", Str("ab")),
                                 Entry("img-src", None)>>)>>,
            NoLists),
      Named(<<Entry("default", <<Entry("default-src", List("c1")),
                                 Entry("upgrade-insecure-requests", Bool(FALSE)),
                                 Entry("include_nonce_in",
                                       Tup(<<"upgrade-insecure-requests",
                                             "img-src", "img-src">>))>>)>>,
            "c1" :> <<"'self'">>),
      Named(<<Entry("default", <<Entry("upgrade-insecure-requests", Bool(TRUE)),
                                 Entry("bogus-src", Tup(<<"x">>))>>)>>,
            NoLists),
      Named(<<Entry("strict", <<Entry("default-src", Tup(<<"x">>))>>)>>,
            NoLists),
      Named(<<Entry("strict", <<Entry("default-src", Tup(<<"x">>)),
                                Entry("report_only", Bool(TRUE))>>),
              Entry("default", <<Entry("img-src", List("c2"))>>)>>,
            "c2" :> <<"y">>),
      Flat(<<Entry("default-src", List("c1"))>>, "c1" :> <<"'self'">>) }

UpdateInputs ==
    { NoObject,
      Named(<<Entry("extra", <<Entry("img-src", List("u1"))>>)>>,
            "u1" :> <<"x">>),
      Named(<<Entry("extra", <<Entry("img-src", List("u1"))>>),
              Entry("other", <<Entry("img-src", Tup(<<"y">>)),
                               Entry("default-src", Tup(<<"y">>))>>)>>,
            "u1" :> <<"x">>),
      Named(<<Entry("default", <<Entry("default-src", Tup(<<"b">>)),
                                 Entry("upgrade-insecure-requests", Bool(TRUE))>>)>>,
            NoLists),
      Named(<<Entry("default", <<Entry("upgrade-insecure-requests", Bool(FALSE)),
                                 Entry("img-src", Str("x")),
                                 Entry("include_nonce_in", Tup(<<"img-src">>)),
                                 Entry("bogus-src", Tup(<<"z">>))>>)>>,
            NoLists),
      Named(<<Entry("extra", <<>>)>>, NoLists),
      Flat(<<Entry("default-src", List("u1")), Entry("img-src", None)>>,
           "u1" :> <<"b">>) }

ReplaceInputs ==
    { NoObject,
      Named(<<Entry("default", <<Entry("default-src", Tup(<<"x">>))>>)>>, NoLists),
      Named(<<Entry("default", <<Entry("default-src", None),
                                 Entry("img-src", List("r1"))>>)>>,
            "r1" :> <<"y">>),
      Flat(<<Entry("bogus-src", Str("x"))>>, NoLists) }

\* Set iteration orders of the directive names the inputs use.
HashOrders ==
    { <<"default-src", "img-src", "report-uri", "upgrade-insecure-requests",
        "bogus-src", "report_only", "include_nonce_in">>,
      <<"include_nonce_in", "bogus-src", "upgrade-insecure-requests", "img-src",
        "report_only", "default-src", "report-uri">> }

Nonces == {None, Str(""), Str("abc")}

ByName(n) == [name |-> n]
ByPosition(i) == [pos |-> i]

Orders == {None, Tup(<<ByName("default")>>), Tup(<<ByPosition(0), ByName("default")>>)}

Object(in) ==
    CASE in.form = "named" -> [form |-> "named", d |-> in.d]
      [] in.form = "flat" -> [form |-> "flat", policy |-> in.policy]
      [] OTHER -> [form |-> "none"]

Init ==
    /\ \E c \in ConfigInputs, u \in UpdateInputs, r \in ReplaceInputs :
          /\ config = Object(c)
          /\ update = Object(u)
          /\ replace = Object(r)
          /\ heap = c.heap @@ u.heap @@ r.heap
    /\ hashOrder \in HashOrders
    /\ calls = 0
    /\ args = [nonce |-> None, order |-> None]
    /\ pre = [config |-> config, update |-> update, replace |-> replace, heap |-> heap]
    /\ composed = [err |-> NoError, policies |-> <<>>]
    /\ compiled = <<>>
    /\ result = [err |-> NoError, out |-> <<>>]

\* One call build_policy(config, update, replace, nonce, order).
CallBuildPolicy(nonce, order) ==
    /\ calls < MaxCalls
    /\ \E b \in {build_policy(config, update, replace, nonce, order, heap)} :
           /\ config' = b.config
           /\ heap' = b.heap
           /\ composed' = b.composed
           /\ compiled' = b.compiled
           /\ result' = b.result
    /\ calls' = calls + 1
    /\ args' = [nonce |-> nonce, order |-> order]
    /\ pre' = [config |-> config, update |-> update, replace |-> replace, heap |-> heap]
    /\ UNCHANGED <<update, replace, hashOrder>>

Next == \E nonce \in Nonces, order \in Orders : CallBuildPolicy(nonce, order)

Spec == Init /\ [][Next]_vars

-----------------------------------------------------------------------------
(* Reading the state *)

\* The deep value of a caller's object: its dicts with the lists written out.
DeepObj(o, h) ==
    CASE o.form = "named" ->
            [i \in 1..Len(o.d) |-> Entry(o.d[i].k, DeepDict(o.d[i].v, h))]
      [] o.form = "flat" -> DeepDict(o.policy, h)
      [] OTHER -> <<>>

\* The tokens a directive value stands for: nothing for None, the scalar
\* itself for a scalar, the items of a sequence.
Tokens(v, h) ==
    CASE v.t = "none" -> <<>>
      [] v.t = "scalar" -> <<v.s>>
      [] OTHER -> ItemsOf(v, h)

\* The tokens of key k in dict d; nothing when d has no k.
TokensAt(d, k, h) == IF Has(d, k) THEN Tokens(Get(d, k), h) ELSE <<>>

AllKeys == DIRECTIVES \cup {"bogus-src"}
ContentKeys == AllKeys \ PSEUDO_DIRECTIVES

\* The inputs of the last call as its loops saw them.
PreConfig == _normalize_config(pre.config)
PreUpdate == _normalize_config(pre.update)
PreReplace == _normalize_config(pre.replace)

Called == calls > 0

-----------------------------------------------------------------------------
(* Claims *)

\* C1: after any sequence of build_policy calls the caller's config, update
\* and replace objects, with every policy and value sequence nested in them,
\* are deep-equal to what they were before the call.
C1_ArgumentsNotMutated ==
    /\ DeepObj(config, heap) = DeepObj(pre.config, pre.heap)
    /\ DeepObj(update, heap) = DeepObj(pre.update, pre.heap)
    /\ DeepObj(replace, heap) = DeepObj(pre.replace, pre.heap)

\* A call whose update named a policy absent from config has completed its
\* composition (the append pass ran).
C1_AppendPassRan ==
    /\ Called
    /\ composed.err = NoError
    /\ \E i \in 1..Len(PreUpdate) : ~Has(PreConfig, PreUpdate[i].k)

\* C2: for every policy name of config and every content directive key k, the
\* composed value is r followed by u: r the tokens of replace[name][k] when
\* replace[name] has k and of config[name][k] otherwise, u the tokens of
\* update[name][k].
C2_ReplaceThenUpdate ==
    (Called /\ composed.err = NoError) =>
        \A i \in 1..Len(PreConfig) : \A k \in ContentKeys :
            LET name == PreConfig[i].k
                repl == GetOr(PreReplace, name, <<>>)
                upd == GetOr(PreUpdate, name, <<>>)
                r == IF Has(repl, k) THEN Tokens(Get(repl, k), pre.heap)
                     ELSE TokensAt(PreConfig[i].v, k, pre.heap)
                u == TokensAt(upd, k, pre.heap)
            IN  /\ Has(composed.policies, name)
                /\ TokensAt(Get(composed.policies, name), k, heap) = r \o u

\* A call composed a policy whose base directive was replaced and then
\* updated: the base token is gone, the replace token precedes the update's.
C2_Witness ==
    /\ Called
    /\ composed.err = NoError
    /\ \E i \in 1..Len(PreConfig) :
          LET name == PreConfig[i].k
          IN  /\ TokensAt(PreConfig[i].v, "default-src", pre.heap) = <<"'self'">>
              /\ TokensAt(GetOr(PreReplace, name, <<>>), "default-src", pre.heap) = <<"x">>
              /\ TokensAt(GetOr(PreUpdate, name, <<>>), "default-src", pre.heap) = <<"b">>
              /\ TokensAt(Get(composed.policies, name), "default-src", heap) = <<"x", "b">>

\* The policies update names that config lacks, when the append template is
\* a policy of config.
AppendedNames ==
    IF Has(PreConfig, UPDATE_TEMPLATE)
    THEN {PreUpdate[i].k : i \in 1..Len(PreUpdate)} \ KeySet(PreConfig)
    ELSE {}

\* Policy `got` is the template `tmpl` with `delta` applied by the update
\* pass: the template's directives are kept, a content directive holds the
\* template's tokens followed by the delta's, a pseudo directive the delta's
\* value when it gives one.
IsTemplatePlusDelta(got, tmpl, delta) ==
    /\ KeySet(tmpl) \subseteq KeySet(got)
    /\ \A k \in KeySet(delta) : Get(delta, k) # None => Has(got, k)
    /\ \A k \in ContentKeys :
          TokensAt(got, k, heap) = TokensAt(tmpl, k, pre.heap) \o TokensAt(delta, k, pre.heap)
    /\ \A k \in PSEUDO_DIRECTIVES :
          DeepValue(GetOr(got, k, None), heap)
            = IF GetOr(delta, k, None) # None
              THEN DeepValue(Get(delta, k), pre.heap)
              ELSE DeepValue(GetOr(tmpl, k, None), pre.heap)

\* C3: a policy P that update names and config lacks is emitted as a clone of
\* the template policy with update[P] applied by the update pass.
C3_AppendedIsTemplatePlusDelta ==
    Called =>
        \A P \in AppendedNames :
            /\ composed.err = NoError
            /\ Has(composed.policies, P)
            /\ IsTemplatePlusDelta(Get(composed.policies, P),
                                   Get(PreConfig, UPDATE_TEMPLATE),
                                   Get(PreUpdate, P))

\* The spec's example: template {'default-src': ["'self'"]}, delta
\* {'img-src': ['x']} for 'extra' composes 'extra' from both.
C3_Witness ==
    /\ Called
    /\ "extra" \in AppendedNames
    /\ composed.err = NoError
    /\ DeepDict(Get(PreConfig, UPDATE_TEMPLATE), pre.heap)
         = <<Entry("default-src", [t |-> "list", items |-> <<"'self'">>])>>
    /\ TokensAt(Get(composed.policies, "extra"), "default-src", heap) = <<"'self'">>
    /\ TokensAt(Get(composed.policies, "extra"), "img-src", heap) = <<"x">>

\* What the last call returns when it is made without an order.
Unordered ==
    build_policy(pre.config, pre.update, pre.replace, args.nonce, None, pre.heap)

\* The position in the composed collection that an entry of order designates
\* (0 when it designates none).
Designated(entry, names) ==
    IF "pos" \in DOMAIN entry
    THEN IF entry.pos + 1 \in 1..Len(names) THEN entry.pos + 1 ELSE 0
    ELSE IF \E j \in 1..Len(names) : names[j] = entry.name
         THEN CHOOSE j \in 1..Len(names) : names[j] = entry.name
         ELSE 0

\* C4: with a non-empty order the result has len(order) entries, the i-th
\* being the pair of the composed policy order[i] designates, equal to the
\* pair that policy gets without an order.
C4_OrderSelects ==
    (Called /\ Truthy(args.order, heap)) =>
        LET plain == Unordered
            names == [j \in 1..Len(plain.composed.policies) |->
                        plain.composed.policies[j].k]
            order == args.order.items
        IN  (/\ plain.result.err = NoError
             /\ \A i \in 1..Len(order) : Designated(order[i], names) # 0)
            => /\ result.err = NoError
               /\ Len(result.out) = Len(order)
               /\ \A i \in 1..Len(order) :
                     result.out[i] = plain.result.out[Designated(order[i], names)]

\* A call was made with a non-empty order every entry of which designates a
\* composed policy.
C4_Witness ==
    /\ Called
    /\ Truthy(args.order, heap)
    /\ Unordered.result.err = NoError
    /\ \A i \in 1..Len(args.order.items) :
          Designated(args.order.items[i],
                     [j \in 1..Len(composed.policies) |-> composed.policies[j].k]) # 0

\* How often x occurs in seq, and seq without its repeated elements.
Count(seq, x) == Cardinality({i \in 1..Len(seq) : seq[i] = x})
FirstOccurrences(seq) ==
    LET first == {i \in 1..Len(seq) : \A j \in 1..(i - 1) : seq[j] # seq[i]}
        nth[n \in 0..Len(seq)] ==
            IF n = 0 THEN <<>>
            ELSE IF n \in first THEN Append(nth[n - 1], seq[n]) ELSE nth[n - 1]
    IN  nth[Len(seq)]

\* The nonce source token of nonce n, and the text of `times` of them.
NonceToken(n) == "'nonce-" \o n \o "'"
NonceTokens(n, times) == Join([i \in 1..times |-> NonceToken(n)], " ")

\* How many nonce tokens directive k gets: one for each occurrence of its
\* name in sections, or one if it is named at all.
Times(sections, k, perOccurrence) ==
    IF perOccurrence THEN Count(sections, k)
    ELSE IF Count(sections, k) > 0 THEN 1 ELSE 0

\* policy_parts `parts` with the nonce tokens of every directive after its
\* tokens; a directive the parts lack is created, after the others.
WithNonce(parts, sections, n, perOccurrence) ==
    LET new == SelectSeq(FirstOccurrences(sections), LAMBDA k : ~Has(parts, k))
        toks(k) == NonceTokens(n, Times(sections, k, perOccurrence))
    IN  [i \in 1..Len(parts) |-> Entry(parts[i].k, FormatStrip(parts[i].v, toks(parts[i].k)))]
        \o [i \in 1..Len(new) |-> Entry(new[i], toks(new[i]))]

HeaderOf(parts) ==
    Join([i \in 1..Len(parts) |-> FormatStrip(parts[i].k, parts[i].v)], "; ")

\* A _compile_policy call of the last call that returned, on a policy whose
\* include_nonce_in (or the default) is a list or tuple of directive names.
NonceCompiles ==
    {i \in 1..Len(compiled) :
        /\ compiled[i].err = NoError
        /\ IsSeqValue(GetOr(compiled[i].csp, "include_nonce_in", DefaultIncludeNonceIn))}

\* The compile of rec differs from the compile of the same policy without a
\* nonce only by the nonce tokens appended to the directives named.
NonceIsSuffix(rec, perOccurrence) ==
    LET plain == _compile_policy(rec.csp, None, heap)
        sections == ItemsOf(GetOr(rec.csp, "include_nonce_in", DefaultIncludeNonceIn),
                            heap)
        want == IF Truthy(rec.nonce, heap)
                THEN WithNonce(plain.parts, sections, rec.nonce.s, perOccurrence)
                ELSE plain.parts
    IN  /\ rec.parts = want
        /\ rec.header = HeaderOf(want)
        /\ rec.report_only = plain.report_only

\* C5 as stated: with a non-empty nonce each directive named in
\* include_nonce_in gets the nonce token appended once after its tokens,
\* however often its name repeats; other directives are unchanged; without a
\* nonce, or with an empty one, no token is added.
C5_NonceOncePerDirective ==
    \A i \in NonceCompiles : NonceIsSuffix(compiled[i], FALSE)

\* C5 amended: the nonce token is appended once for each occurrence of the
\* directive's name in include_nonce_in.
C5_NonceOncePerOccurrence ==
    \A i \in NonceCompiles : NonceIsSuffix(compiled[i], TRUE)

\* A policy was compiled with a nonce and an include_nonce_in that names an
\* existing directive once, an absent directive twice.
C5_Witness ==
    \E i \in NonceCompiles :
        /\ compiled[i].nonce = Str("abc")
        /\ GetOr(compiled[i].csp, "include_nonce_in", None)
             = Tup(<<"upgrade-insecure-requests", "img-src", "img-src">>)
        /\ Has(compiled[i].csp, "default-src")
        /\ ~Has(compiled[i].csp, "img-src")
        /\ Has(compiled[i].parts, "img-src")

\* The value is the flag false.
IsFlagFalse(v, h) == Tokens(v, h) = <<PyFalse>>

\* C6: a directive whose composed value is the flag false does not appear in
\* the header, under any key, for any nonce.
C6_FalseFlagOmitted ==
    \A i \in 1..Len(compiled) :
        compiled[i].err = NoError =>
            \A j \in 1..Len(compiled[i].csp) :
                IsFlagFalse(compiled[i].csp[j].v, heap)
                    => ~Has(compiled[i].parts, compiled[i].csp[j].k)

\* A policy holding a false flag was compiled without a nonce and the flag's
\* directive is not in the header.
C6_Witness ==
    \E i \in 1..Len(compiled) :
        /\ compiled[i].err = NoError
        /\ ~Truthy(compiled[i].nonce, heap)
        /\ Has(compiled[i].csp, "upgrade-insecure-requests")
        /\ IsFlagFalse(Get(compiled[i].csp, "upgrade-insecure-requests"), heap)
        /\ ~Has(compiled[i].parts, "upgrade-insecure-requests")

\* Some policy of the named-policy mapping d has a key outside the registry.
HasUnknownKey(d) ==
    \E i \in 1..Len(d) : ~(KeySet(d[i].v) \subseteq DIRECTIVES)

\* C7: build_policy raises, and returns no header, whenever a policy of its
\* config, update or replace has a directive key outside the registry.
C7_UnknownKeyFails ==
    (Called /\ (HasUnknownKey(PreConfig) \/ HasUnknownKey(PreUpdate)
                    \/ HasUnknownKey(PreReplace)))
        => result.err # NoError

\* C8: a call with the same config, update, replace, nonce and order objects
\* as the call before it returns an equal list.
C8_SameInputsSameResult ==
    [][(Called /\ args' = args /\ result.err = NoError) => result' = result]_vars

\* C9: an update-delta boolean overwrites a flag directive of a config policy:
\* base false with update true is emitted as the bare directive name, base
\* true with update false is omitted.
C9_UpdateOverwritesFlag ==
    \A i \in 1..Len(compiled) :
        LET rec == compiled[i]
            k == "upgrade-insecure-requests"
            base == GetOr(GetOr(PreConfig, rec.name, <<>>), k, None)
            upd == GetOr(GetOr(PreUpdate, rec.name, <<>>), k, None)
        IN  (/\ Has(PreConfig, rec.name)
             /\ rec.err = NoError
             /\ ~Truthy(rec.nonce, heap)
             /\ ~Has(GetOr(PreReplace, rec.name, <<>>), k))
            => /\ (base = Bool(FALSE) /\ upd = Bool(TRUE))
                    => (Has(rec.parts, k) /\ Get(rec.parts, k) = "")
               /\ (base = Bool(TRUE) /\ upd = Bool(FALSE)) => ~Has(rec.parts, k)

\* A config policy whose flag is false was compiled after an update-delta
\* gave true for the flag.
C9_Witness ==
    \E i \in 1..Len(compiled) :
        /\ compiled[i].err = NoError
        /\ Has(PreConfig, compiled[i].name)
        /\ GetOr(Get(PreConfig, compiled[i].name), "upgrade-insecure-requests", None)
             = Bool(FALSE)
        /\ GetOr(GetOr(PreUpdate, compiled[i].name, <<>>),
                 "upgrade-insecure-requests", None) = Bool(TRUE)

\* The dict is a normalized policy: no None value, every content directive a
\* sequence of tokens.
IsNormalized(csp) ==
    \A j \in 1..Len(csp) :
        /\ csp[j].v # None
        /\ csp[j].k \notin PSEUDO_DIRECTIVES => IsSeqValue(csp[j].v)

\* C10: every policy handed to _compile_policy is normalized, and compiling
\* it does not raise.
C10_CompiledAreNormalized ==
    \A i \in 1..Len(compiled) :
        /\ IsNormalized(compiled[i].csp)
        /\ compiled[i].err = NoError

\* An appended policy was handed to _compile_policy.
C10_Witness ==
    \E i \in 1..Len(compiled) : ~Has(PreConfig, compiled[i].name)

\* The policies update names with an empty delta that config lacks.
EmptyDeltaNames ==
    {PreUpdate[i].k : i \in {j \in 1..Len(PreUpdate) : PreUpdate[j].v = <<>>}}
        \ KeySet(PreConfig)

\* C11: a key of update that is absent from config and whose update-delta is
\* empty is composed as an empty policy under that name (no directive of the
\* append template is in it), and that policy compiles to the empty header.
C11_EmptyDeltaYieldsEmptyPolicy ==
    (Called /\ composed.err = NoError) =>
        \A P \in EmptyDeltaNames :
            /\ Has(composed.policies, P)
            /\ Get(composed.policies, P) = <<>>
            /\ \A i \in 1..Len(compiled) :
                  compiled[i].name = P => compiled[i].header = ""

\* The append pass composed a policy for a name of update with an empty
\* delta that config lacks, and the policy was compiled.
C11_Witness ==
    /\ Called
    /\ composed.err = NoError
    /\ \E P \in EmptyDeltaNames :
          \E i \in 1..Len(compiled) :
              compiled[i].name = P /\ compiled[i].err = NoError

====
